---------------------------- MODULE Spec2Model ----------------------------
(***************************************************************************)
(* Software SPI master (sspi): the bit-clock engine, the word composer     *)
(* and the buffer transfer of src/src/sspi.h and src/src/sspi.c, modelled  *)
(* as a state machine whose steps are the invocations of the four injected *)
(* callbacks (write_sck, write_mosi, read_miso, delay) and the statements  *)
(* between them.                                                           *)
(***************************************************************************)
EXTENDS Integers, Sequences, FiniteSets, TLC

VARIABLES
    bus,        \* the struct sspi the running operation was called with
    pc,         \* call stack: sequence of frame labels, innermost last
    pending,    \* callbacks the running inline function has still to invoke
    write_bit,  \* sspi_bit_read_write: parameter
    read_bit,   \* sspi_bit_read_write: local
    bit_ret,    \* value the last sspi_bit_read_write returned
    word_size,  \* sspi_byte_read_write: locals
    mask_tx,
    mask_rx,
    write_byte,
    read_byte,
    bit,
    byte_ret,   \* value the last sspi_byte_read_write returned
    size,       \* sspi_read_write: parameters and locals
    read_buff,
    write_buff,
    tx_byte,
    rx_byte,
    mem,        \* the caller's memory: address -> byte
    log,        \* every callback invocation so far, in order
    call,       \* the current / last top-level call and its arguments
    mem0,       \* the memory as it was when that call was made
    calls_left, \* top-level calls the session may still make
    tracked,    \* the caller keeps the list of its calls (the tests do)
    hist,       \* the calls it made so far, each with what it returned
    line,       \* the data-in line: free, or driven by a scripted waveform
    left,       \* bit cycles the session may still clock
    bit_base,   \* Len(log) when the current / last bit call was entered
    byte_base,  \* Len(log) when the current / last byte call was entered
    byte_arg    \* write_byte argument of the current / last byte call

bitVars  == <<write_bit, read_bit, bit_ret, bit_base>>
byteVars == <<word_size, mask_tx, mask_rx, write_byte, read_byte, bit,
              byte_ret, byte_base, byte_arg>>
rwVars   == <<size, read_buff, write_buff, tx_byte, rx_byte>>
callVars == <<call, mem0, calls_left>>
vars == <<bus, pc, pending, bitVars, byteVars, rwVars, mem, log, callVars,
          left, tracked, hist, line>>

---------------------------------------------------------------------------
(* Bounds of the model                                                     *)

MaxCalls == 2          \* top-level calls in one session
MaxSize == 2           \* largest buffer length passed to sspi_read_write
MaxCycles == 3         \* bit cycles one session may clock
MaxWordSize == 9       \* largest word_size tried by the word-level runs
MaxNegWordSize == 2    \* word_size down to -MaxNegWordSize is tried

---------------------------------------------------------------------------
(* Pin levels, bytes, bit operations                                       *)

SSPI_PIN_LOW == 0
SSPI_PIN_HIGH == 1
PinLevels == {SSPI_PIN_LOW, SSPI_PIN_HIGH}

Byte == 0..255
NULL == 0

RECURSIVE Pow2(_)
Pow2(n) == IF n <= 0 THEN 1 ELSE 2 * Pow2(n - 1)

\* bit k of x (0 or 1)
BitOf(x, k) == (x \div Pow2(k)) % 2

RECURSIVE BitAnd(_, _)
BitAnd(x, y) ==
    IF x = 0 \/ y = 0 THEN 0
    ELSE ((x % 2) * (y % 2)) + 2 * BitAnd(x \div 2, y \div 2)

RECURSIVE BitOr(_, _)
BitOr(x, y) ==
    IF x = 0 THEN y
    ELSE IF y = 0 THEN x
    ELSE (IF x % 2 = 1 \/ y % 2 = 1 THEN 1 ELSE 0)
         + 2 * BitOr(x \div 2, y \div 2)

\* conversion to uint8_t
U8(x) == x % 256

Ev(cb, val) == [cb |-> cb, val |-> val]

---------------------------------------------------------------------------
(* sspi.h: the inline functions as the callbacks they invoke               *)

\* slip: the leading edge ignores the polarity
SckLeadNoCpol(b) == SSPI_PIN_HIGH

\* slip: the leading edge writes the idle level
SckLeadIdle(b) == IF b.cpol_1 THEN SSPI_PIN_HIGH ELSE SSPI_PIN_LOW

SckLead(b) == IF b.cpol_1 THEN SSPI_PIN_LOW ELSE SSPI_PIN_HIGH

\* slip: the trailing edge always goes low
SckTrailLow(b) == SSPI_PIN_LOW

SckTrail(b) == IF b.cpol_1 THEN SSPI_PIN_HIGH ELSE SSPI_PIN_LOW

\* slip: the clock is driven low whatever the polarity
ResetCallsNoCpol(b) ==
    << Ev("write_sck", SSPI_PIN_LOW), Ev("write_mosi", SSPI_PIN_LOW) >>

\* sspi_reset: write_sck(idle level), write_mosi(LOW)
ResetCalls(b) ==
    << Ev("write_sck", IF b.cpol_1 THEN SSPI_PIN_HIGH ELSE SSPI_PIN_LOW),
       Ev("write_mosi", SSPI_PIN_LOW) >>

\* slip: with cpha = 0 the line is sampled after the second wait
BitCallsLateSample(b, wbit) ==
    IF b.cpha_1
    THEN << Ev("delay", 0),
            Ev("write_sck", SckLead(b)),
            Ev("write_mosi", wbit),
            Ev("delay", 0),
            Ev("write_sck", SckTrail(b)),
            Ev("read_miso", 0) >>
    ELSE << Ev("write_mosi", wbit),
            Ev("delay", 0),
            Ev("write_sck", SckLead(b)),
            Ev("delay", 0),
            Ev("read_miso", 0),
            Ev("write_sck", SckTrail(b)) >>

\* slip: with cpha = 1 data-out changes before the leading edge
BitCallsEarlyShift(b, wbit) ==
    IF b.cpha_1
    THEN << Ev("delay", 0),
            Ev("write_mosi", wbit),
            Ev("write_sck", SckLead(b)),
            Ev("delay", 0),
            Ev("write_sck", SckTrail(b)),
            Ev("read_miso", 0) >>
    ELSE << Ev("write_mosi", wbit),
            Ev("delay", 0),
            Ev("write_sck", SckLead(b)),
            Ev("read_miso", 0),
            Ev("delay", 0),
            Ev("write_sck", SckTrail(b)) >>

\* slip: with cpha = 0 the wait before the trailing edge is missing
BitCallsNoSecondDelay(b, wbit) ==
    IF b.cpha_1
    THEN << Ev("delay", 0),
            Ev("write_sck", SckLead(b)),
            Ev("write_mosi", wbit),
            Ev("delay", 0),
            Ev("write_sck", SckTrail(b)),
            Ev("read_miso", 0) >>
    ELSE << Ev("write_mosi", wbit),
            Ev("delay", 0),
            Ev("write_sck", SckLead(b)),
            Ev("read_miso", 0),
            Ev("write_sck", SckTrail(b)) >>

\* sspi_bit_read_write: the straight-line callback sequence of each branch
BitCalls(b, wbit) ==
    IF b.cpha_1
    THEN << Ev("delay", 0),
            Ev("write_sck", SckLead(b)),
            Ev("write_mosi", wbit),
            Ev("delay", 0),
            Ev("write_sck", SckTrail(b)),
            Ev("read_miso", 0) >>
    ELSE << Ev("write_mosi", wbit),
            Ev("delay", 0),
            Ev("write_sck", SckLead(b)),
            Ev("read_miso", 0),
            Ev("delay", 0),
            Ev("write_sck", SckTrail(b)) >>

---------------------------------------------------------------------------
(* sspi.c: sspi_byte_read_write, statement by statement                    *)

\* slip: a zero word_size is not replaced by the default
EffWordSizeNoZeroCheck(b) == IF b.word_size < 8 THEN b.word_size ELSE 8

\* line 30: the word size in effect
EffWordSize(b) ==
    IF b.word_size # 0 /\ b.word_size < 8 THEN b.word_size ELSE 8

\* line 31: (uint8_t)(1 << (word_size - 1)); a negative shift count is
\* undefined behaviour, the mask is then any byte
WordMsbMasks(ws) == IF ws >= 1 THEN {U8(Pow2(ws - 1))} ELSE Byte

\* slip: MSB-first transmission always starts at bit 7
MaskTxBit7(b, msb) == IF b.lsb THEN 1 ELSE 128

\* slip: LSB-first reception enters at bit 7 whatever the word size
MaskRxBit7(b, msb) == IF b.lsb THEN 128 ELSE 1

\* lines 32, 33
MaskTx(b, msb) == IF b.lsb THEN 1 ELSE msb
MaskRx(b, msb) == IF b.lsb THEN msb ELSE 1

\* line 38: the argument handed to sspi_bit_read_write
TxBit(wbyte, mtx) == BitAnd(wbyte, mtx)

\* slip: a low sample sets the bit
\* slip: a low sample sets the bit
RxAccumulateInverted(rbyte, rbit, mrx) ==
    BitOr(rbyte, IF rbit # 0 THEN 0 ELSE mrx)

\* line 38: read_byte |= <returned bit> ? mask_rx : 0x00
RxAccumulate(rbyte, rbit, mrx) ==
    BitOr(rbyte, IF rbit # 0 THEN mrx ELSE 0)

\* slip: the word is shifted after the last bit too
ShiftAlways(k, ws) == TRUE

\* line 40: the shift is skipped after the last bit
ShiftWanted(k, ws) == k < ws - 1

\* slip: the bytes are shifted left in either bit order
ShiftByteLeftOnly(b, x) == U8(x * 2)

\* lines 42-51: uint8_t shifts, direction by bit order
ShiftByte(b, x) == IF b.lsb THEN x \div 2 ELSE U8(x * 2)

\* slip: the loop runs once more
ByteLoopCondOneMore(k, ws) == k <= ws

\* line 36: loop condition
ByteLoopCond(k, ws) == k < ws

\* one bit cycle as logged when read_miso returns rbit
BitLog(b, wbit, rbit) ==
    [i \in DOMAIN BitCalls(b, wbit) |->
        IF BitCalls(b, wbit)[i].cb = "read_miso"
        THEN Ev("read_miso", rbit) ELSE BitCalls(b, wbit)[i]]

\* lines 36-55 run from the locals L on, read_miso returning the levels of
\* reads one after the other (and HIGH, the pulled-up line, once they are
\* used up): the callbacks invoked and the byte returned
RECURSIVE ByteRunFrom(_, _, _)
ByteRunFrom(b, L, reads) ==
    IF ~ByteLoopCond(L.bit, L.word_size)
    THEN [log |-> <<>>, ret |-> L.read_byte]
    ELSE LET rbit == IF reads = <<>> THEN SSPI_PIN_HIGH ELSE Head(reads)
             acc == RxAccumulate(L.read_byte, rbit, L.mask_rx)
             sh == ShiftWanted(L.bit, L.word_size)
             L2 == [L EXCEPT
                      !.write_byte = IF sh THEN ShiftByte(b, @) ELSE @,
                      !.read_byte = IF sh THEN ShiftByte(b, acc) ELSE acc,
                      !.bit = @ + 1]
             rest == ByteRunFrom(b, L2,
                                 IF reads = <<>> THEN reads ELSE Tail(reads))
         IN  [log |-> BitLog(b, TxBit(L.write_byte, L.mask_tx), rbit)
                        \o rest.log,
              ret |-> rest.ret]

\* sspi_byte_read_write(b, wbyte) as a whole (lines 30-55)
ByteRun(b, wbyte, reads) ==
    LET msb == CHOOSE m \in WordMsbMasks(EffWordSize(b)) : TRUE
    IN  ByteRunFrom(b, [word_size |-> EffWordSize(b),
                        mask_tx |-> MaskTx(b, msb),
                        mask_rx |-> MaskRx(b, msb),
                        write_byte |-> wbyte,
                        read_byte |-> 0,
                        bit |-> 0], reads)

---------------------------------------------------------------------------
(* sspi.c: sspi_read_write                                                 *)

\* slip: the byte is fetched from the element before, the one the
\* received word has just been stored to
TxByteStale(m, wbuf) ==
    IF wbuf = NULL THEN 0
    ELSE IF wbuf - 1 \in DOMAIN m THEN m[wbuf - 1] ELSE m[wbuf]

\* line 65: the byte to transmit
TxByte(m, wbuf) == IF wbuf # NULL THEN m[wbuf] ELSE 0

\* line 67: the store of the received byte
StoreRx(m, rbuf, rx) == IF rbuf # NULL THEN [m EXCEPT ![rbuf] = rx] ELSE m

\* slip: the buffer pointers are not advanced
PtrIncStuck(p) == p

\* slip: the buffer pointers skip an element
PtrIncTwo(p) == IF p # NULL THEN p + 2 ELSE p

\* pointer increment (lines 65, 67): only a non-null pointer moves
PtrInc(p) == IF p # NULL THEN p + 1 ELSE p

\* lines 63-68 as a whole: size words are transferred one after the other,
\* read_miso returning the levels of reads; the callbacks invoked and the
\* memory left behind
RECURSIVE RwRun(_, _, _, _, _, _)
RwRun(b, m, rbuf, wbuf, n, reads) ==
    IF n = 0
    THEN [log |-> <<>>, mem |-> m]
    ELSE LET R == ByteRun(b, TxByte(m, wbuf), reads)
             used == Len(SelectSeq(R.log, LAMBDA e : e.cb = "read_miso"))
             rest == RwRun(b, StoreRx(m, rbuf, R.ret), PtrInc(rbuf),
                           PtrInc(wbuf), n - 1,
                           SubSeq(reads, used + 1, Len(reads)))
         IN  [log |-> R.log \o rest.log, mem |-> rest.mem]

---------------------------------------------------------------------------
(* The data-in line behind read_miso and delay                             *)

\* read_miso may return either level at every call
FreeLine == [scripted |-> FALSE, real |-> SSPI_PIN_HIGH, in_samples |-> <<>>]

\* test/main.c: the MISO pin of the tests, pulled up, driven by the
\* external device's oscillogram w (gpio_pin_new, gpio_pin_set_in)
ScriptedLine(w) == [scripted |-> TRUE, real |-> SSPI_PIN_HIGH, in_samples |-> w]

\* gpio_pin_sample: the level the device drives at the next sample; '_' and
\* '\' are low, anything else and the end of the oscillogram are high
PinIn(smp) ==
    IF smp # <<>> /\ Head(smp) \in {"_", "\\"}
    THEN SSPI_PIN_LOW ELSE SSPI_PIN_HIGH

\* delay -> gpio_pin_sample(&pin_miso): the pin takes the driven level (its
\* own output is never written and stays high), the oscillogram advances
Sampled(l) ==
    IF l.scripted
    THEN [l EXCEPT !.real = PinIn(l.in_samples),
                   !.in_samples = IF @ = <<>> THEN @ ELSE Tail(@)]
    ELSE l

\* read_miso -> gpio_pin_read(&pin_miso)
MisoReads(l) == IF l.scripted THEN {l.real} ELSE PinLevels

---------------------------------------------------------------------------
(* Inputs the callers draw from                                            *)

WordSizes == (0 - MaxNegWordSize)..MaxWordSize
WriteBytes == {0, 7, 26, 90, 135, 255}     \* 0x00 0x07 0x1A 0x5A 0x87 0xFF

Buses(WS) == [cpol_1 : BOOLEAN, cpha_1 : BOOLEAN, lsb : BOOLEAN, word_size : WS]

\* the caller's two arrays, each with one element more than is ever passed
WrBuf == 1
RdBuf == WrBuf + MaxSize + 1
Addrs == WrBuf..(RdBuf + MaxSize)
WriteBuffers == { <<135, 90>>, <<7, 26>> }

\* a memory whose write array starts with the bytes of w, every other
\* element holding the filler f
MemOf(w, f) ==
    [a \in Addrs |-> IF a - WrBuf + 1 \in DOMAIN w THEN w[a - WrBuf + 1] ELSE f]

\* bit cycles a word transfer on bus b clocks (none for a negative size)
WordCycles(b) == IF EffWordSize(b) > 0 THEN EffWordSize(b) ELSE 0

NoCall == [op |-> "none", arg |-> 0, rd |-> NULL, wr |-> NULL, n |-> 0, base |-> 0]

Top == IF pc = <<>> THEN "caller" ELSE pc[Len(pc)]
Pop == SubSeq(pc, 1, Len(pc) - 1)
Goto(label) == [pc EXCEPT ![Len(pc)] = label]

---------------------------------------------------------------------------
(* Initial states                                                          *)

InitLocals ==
    /\ pc = <<>>
    /\ pending = <<>>
    /\ write_bit = 0 /\ read_bit = 0 /\ bit_ret = 0 /\ bit_base = 0
    /\ word_size = 0 /\ mask_tx = 0 /\ mask_rx = 0
    /\ write_byte = 0 /\ read_byte = 0 /\ bit = 0
    /\ byte_ret = 0 /\ byte_base = 0 /\ byte_arg = 0
    /\ size = 0 /\ read_buff = NULL /\ write_buff = NULL
    /\ tx_byte = 0 /\ rx_byte = 0
    /\ log = <<>>
    /\ call = NoCall
    /\ hist = <<>>

\* a session on one bus with short words
Init ==
    /\ InitLocals
    /\ tracked = FALSE
    /\ bus \in Buses(1..2)
    /\ mem = MemOf(<<135, 90>>, 0)
    /\ mem0 = mem
    /\ line = FreeLine
    /\ left = MaxCycles
    /\ calls_left = MaxCalls

---------------------------------------------------------------------------
(* Entering the functions                                                  *)

\* sspi_bit_read_write is entered with wbit (sspi.h:87-91)
EnterBit(wbit) ==
    /\ write_bit' = wbit
    /\ pending' = BitCalls(bus, wbit)
    /\ bit_base' = Len(log)
    /\ left' = left - 1
    /\ UNCHANGED <<read_bit, bit_ret>>

\* sspi_byte_read_write is entered with wbyte (sspi.c:30-34)
EnterByte(wbyte) ==
    /\ word_size' = EffWordSize(bus)
    /\ \E msb \in WordMsbMasks(EffWordSize(bus)) :
          /\ mask_tx' = MaskTx(bus, msb)
          /\ mask_rx' = MaskRx(bus, msb)
    /\ write_byte' = wbyte
    /\ read_byte' = 0
    /\ bit' = 0
    /\ byte_base' = Len(log)
    /\ byte_arg' = wbyte
    /\ UNCHANGED byte_ret

StartCall(c) ==
    /\ pc = <<>>
    /\ calls_left > 0
    /\ call' = [c EXCEPT !.base = Len(log)]
    /\ mem0' = mem
    /\ calls_left' = calls_left - 1
    /\ hist' = IF tracked
               THEN Append(hist, [call |-> [c EXCEPT !.base = Len(log)],
                                  ret |-> 0])
               ELSE hist

---------------------------------------------------------------------------
(* The caller                                                              *)

CallReset ==
    /\ StartCall([NoCall EXCEPT !.op = "reset"])
    /\ pc' = <<"reset">>
    /\ pending' = ResetCalls(bus)
    /\ UNCHANGED <<bus, tracked, line, bitVars, byteVars, rwVars, mem, log,
                   left>>

\* the caller waits half a period itself: bus->delay(bus) (main.c:181)
CallDelay ==
    /\ StartCall([NoCall EXCEPT !.op = "delay"])
    /\ log' = Append(log, Ev("delay", 0))
    /\ line' = Sampled(line)
    /\ UNCHANGED <<bus, tracked, pc, pending, bitVars, byteVars, rwVars, mem,
                   left>>

CallBit ==
    \E wbit \in PinLevels :
        /\ left >= 1
        /\ StartCall([NoCall EXCEPT !.op = "bit", !.arg = wbit])
        /\ pc' = <<"bit">>
        /\ EnterBit(wbit)
        /\ UNCHANGED <<bus, tracked, line, byteVars, rwVars, mem, log>>

\* the caller transfers one byte of its write array
CallByte ==
    \E wbyte \in {mem[a] : a \in WrBuf..(WrBuf + MaxSize - 1)} :
        /\ left >= WordCycles(bus)
        /\ StartCall([NoCall EXCEPT !.op = "byte", !.arg = wbyte])
        /\ pc' = <<"byte_36">>
        /\ EnterByte(wbyte)
        /\ UNCHANGED <<bus, tracked, line, pending, bitVars, rwVars, mem,
                       log, left>>

\* sspi_read_write(bus, rd, wr, n) (sspi.c:58-62)
EnterReadWrite(op, rd, wr, n) ==
    /\ left >= n * WordCycles(bus)
    /\ StartCall([NoCall EXCEPT !.op = op, !.rd = rd, !.wr = wr, !.n = n])
    /\ pc' = <<"rw_63">>
    /\ size' = n
    /\ read_buff' = rd
    /\ write_buff' = wr
    /\ UNCHANGED <<tx_byte, rx_byte>>
    /\ UNCHANGED <<bus, tracked, line, pending, bitVars, byteVars, mem, log,
                   left>>

CallReadWrite ==
    \E rd \in {RdBuf, WrBuf}, n \in 0..MaxSize :
        EnterReadWrite("rw", rd, WrBuf, n)

\* slip: the caller's write buffer goes out with the read
CallReadEcho ==
    \E n \in 0..MaxSize : EnterReadWrite("read", RdBuf, WrBuf, n)

\* sspi_read (sspi.h:135-140)
CallRead ==
    \E n \in 0..MaxSize : EnterReadWrite("read", RdBuf, NULL, n)

\* slip: the buffer goes in as the read buffer
CallWriteSwapped ==
    \E n \in 0..MaxSize : EnterReadWrite("write", WrBuf, NULL, n)

\* sspi_write (sspi.h:143-148)
CallWrite ==
    \E n \in 0..MaxSize : EnterReadWrite("write", NULL, WrBuf, n)

---------------------------------------------------------------------------
(* The callbacks, invoked in the order the inline function lists them      *)

Invoke(cb) ==
    /\ pending # <<>>
    /\ Head(pending).cb = cb
    /\ pending' = Tail(pending)

WriteSck ==
    /\ Invoke("write_sck")
    /\ log' = Append(log, Head(pending))
    /\ UNCHANGED <<bus, tracked, line, hist, pc, bitVars, byteVars, rwVars,
                   mem, callVars, left>>

WriteMosi ==
    /\ Invoke("write_mosi")
    /\ log' = Append(log, Head(pending))
    /\ UNCHANGED <<bus, tracked, line, hist, pc, bitVars, byteVars, rwVars,
                   mem, callVars, left>>

Delay ==
    /\ Invoke("delay")
    /\ log' = Append(log, Head(pending))
    /\ line' = Sampled(line)
    /\ UNCHANGED <<bus, tracked, hist, pc, bitVars, byteVars, rwVars, mem,
                   callVars, left>>

\* read_bit = bus->read_miso(bus)
ReadMiso ==
    /\ Invoke("read_miso")
    /\ \E v \in MisoReads(line) :
          /\ read_bit' = v
          /\ log' = Append(log, Ev("read_miso", v))
    /\ UNCHANGED <<bus, tracked, line, hist, pc, write_bit, bit_ret, bit_base,
                   byteVars, rwVars, mem, callVars, left>>

---------------------------------------------------------------------------
(* Returns and the statements between the calls                            *)

\* the value v goes back to the caller when the outermost function returns
ReturnValue(v) ==
    hist' = IF tracked /\ Len(pc) = 1
            THEN [hist EXCEPT ![Len(hist)].ret = v] ELSE hist

ResetReturn ==
    /\ Top = "reset" /\ pending = <<>>
    /\ pc' = Pop
    /\ UNCHANGED <<bus, tracked, line, hist, pending, bitVars, byteVars,
                   rwVars, mem, log, callVars, left>>

\* sspi.h:121
BitReturn ==
    /\ Top = "bit" /\ pending = <<>>
    /\ pc' = Pop
    /\ bit_ret' = read_bit
    /\ ReturnValue(read_bit)
    /\ UNCHANGED <<bus, tracked, line, pending, write_bit, read_bit, bit_base,
                   byteVars, rwVars, mem, log, callVars, left>>

\* sspi.c:36, 38: the loop goes on and clocks the next bit
ByteLoop ==
    /\ Top = "byte_36"
    /\ ByteLoopCond(bit, word_size)
    /\ pc' = Append(Goto("byte_38"), "bit")
    /\ EnterBit(TxBit(write_byte, mask_tx))
    /\ UNCHANGED <<bus, tracked, line, hist, byteVars, rwVars, mem, log,
                   callVars>>

\* sspi.c:38-52 and the loop's bit++
ByteAccumulate ==
    /\ Top = "byte_38"
    /\ LET acc == RxAccumulate(read_byte, bit_ret, mask_rx)
       IN  IF ShiftWanted(bit, word_size)
           THEN /\ write_byte' = ShiftByte(bus, write_byte)
                /\ read_byte' = ShiftByte(bus, acc)
           ELSE /\ write_byte' = write_byte
                /\ read_byte' = acc
    /\ bit' = bit + 1
    /\ pc' = Goto("byte_36")
    /\ UNCHANGED <<bus, tracked, line, hist, pending, bitVars, word_size,
                   mask_tx, mask_rx, byte_ret, byte_base, byte_arg, rwVars,
                   mem, log, callVars, left>>

\* sspi.c:36, 55: the loop ends, read_byte is returned
ByteReturn ==
    /\ Top = "byte_36"
    /\ ~ByteLoopCond(bit, word_size)
    /\ pc' = Pop
    /\ byte_ret' = read_byte
    /\ ReturnValue(read_byte)
    /\ UNCHANGED <<bus, tracked, line, pending, bitVars, word_size, mask_tx,
                   mask_rx, write_byte, read_byte, bit, byte_base, byte_arg,
                   rwVars, mem, log, callVars, left>>

\* sspi.c:63, 65, 66: while (size--), fetch tx_byte, call the word transfer
RwLoop ==
    /\ Top = "rw_63"
    /\ size # 0
    /\ size' = size - 1
    /\ tx_byte' = TxByte(mem, write_buff)
    /\ write_buff' = PtrInc(write_buff)
    /\ pc' = Append(Goto("rw_66"), "byte_36")
    /\ EnterByte(TxByte(mem, write_buff))
    /\ UNCHANGED <<bus, tracked, line, hist, pending, bitVars, read_buff,
                   rx_byte, mem, log, callVars, left>>

\* sspi.c:66, 67: rx_byte is what the word transfer returned; store it
RwStore ==
    /\ Top = "rw_66"
    /\ rx_byte' = byte_ret
    /\ mem' = StoreRx(mem, read_buff, byte_ret)
    /\ read_buff' = PtrInc(read_buff)
    /\ pc' = Goto("rw_63")
    /\ UNCHANGED <<bus, tracked, line, hist, pending, bitVars, byteVars, size,
                   write_buff, tx_byte, log, callVars, left>>

\* slip: the function may return while words are left
RwReturnEarly ==
    /\ Top = "rw_63"
    /\ pc' = Pop
    /\ UNCHANGED <<bus, tracked, line, hist, pending, bitVars, byteVars,
                   rwVars, mem, log, callVars, left>>

\* sspi.c:63, 69: size is 0, the loop and the function end
RwReturn ==
    /\ Top = "rw_63"
    /\ size = 0
    /\ pc' = Pop
    /\ UNCHANGED <<bus, tracked, line, hist, pending, bitVars, byteVars,
                   rwVars, mem, log, callVars, left>>

---------------------------------------------------------------------------
Next ==
    \/ CallReset \/ CallBit \/ CallByte
    \/ CallReadWrite \/ CallRead \/ CallWrite
    \/ WriteSck \/ WriteMosi \/ Delay \/ ReadMiso
    \/ ResetReturn \/ BitReturn
    \/ ByteLoop \/ ByteAccumulate \/ ByteReturn
    \/ RwLoop \/ RwStore \/ RwReturn

Spec == Init /\ [][Next]_vars

---------------------------------------------------------------------------
(* Word level: one sspi_byte_read_write on any bus, every word_size from   *)
(* -MaxNegWordSize to MaxWordSize, the line free at every sample           *)

InitByte ==
    /\ InitLocals
    /\ tracked = FALSE
    /\ bus \in Buses(WordSizes)
    /\ \E w \in WriteBytes : mem = MemOf(<<w>>, w)
    /\ mem0 = mem
    /\ line = FreeLine
    /\ left = WordCycles(bus)
    /\ calls_left = 1

NextByte ==
    \/ CallByte
    \/ WriteSck \/ WriteMosi \/ Delay \/ ReadMiso
    \/ BitReturn
    \/ ByteLoop \/ ByteAccumulate \/ ByteReturn

SpecByte == InitByte /\ [][NextByte]_vars

---------------------------------------------------------------------------
(* The 8-bit tests of the four modes: sspi_reset, one wait, then           *)
(* sspi_read_write of {0x87, 0x5A}, and the wait that ends the test, all   *)
(* against the data-in oscillogram of test_mode_0_msb_8bit                 *)

ModeWave ==
    << "_", "_", "_", "/", "^", "^", "^", "^", "^", "^", "^", "\\", "_",
       "_", "_", "_", "_", "/", "^", "\\", "_", "/", "^", "\\", "_", "_",
       "_", "/", "^", "\\", "_", "/", "^" >>

ModeWrite == <<135, 90>>

\* the first call of a test: sspi_reset (main.c:282)
FirstReset == hist = <<>> /\ CallReset

\* the pins are sampled once after the reset (main.c:283)
SettleDelay ==
    /\ Len(hist) = 1 /\ hist[1].call.op = "reset"
    /\ CallDelay

\* sspi_read_write(&sspi, rd_buff, wr_buff, sizeof(wr_buff)) (main.c:287)
ModeTransfer ==
    /\ Len(hist) = 2 /\ hist[2].call.op = "delay"
    /\ EnterReadWrite("rw", RdBuf, WrBuf, Len(ModeWrite))

\* the pins are sampled once more after the transfer (main.c:292)
FinalDelay ==
    /\ Len(hist) = 3 /\ hist[3].call.op = "rw"
    /\ CallDelay

InitModes ==
    /\ InitLocals
    /\ tracked = TRUE
    /\ bus \in [cpol_1 : BOOLEAN, cpha_1 : BOOLEAN, lsb : {FALSE},
                word_size : {0, 8}]
    /\ mem = MemOf(ModeWrite, 0)
    /\ mem0 = mem
    /\ line = ScriptedLine(ModeWave)
    /\ left = Len(ModeWrite) * WordCycles(bus)
    /\ calls_left = 4

NextModes ==
    \/ FirstReset \/ SettleDelay \/ ModeTransfer \/ FinalDelay
    \/ WriteSck \/ WriteMosi \/ Delay \/ ReadMiso
    \/ ResetReturn \/ BitReturn
    \/ ByteLoop \/ ByteAccumulate \/ ByteReturn
    \/ RwLoop \/ RwStore \/ RwReturn

SpecModes == InitModes /\ [][NextModes]_vars

---------------------------------------------------------------------------
(* Words wider than a byte (test_mode_0_10bits): sspi_reset, one wait, one *)
(* 8-bit word transfer and up to MaxExtraBits single-bit transfers, on a   *)
(* free data-in line and against the oscillogram of the test               *)

MaxExtraBits == 2

WideWave ==
    << "\\", "_", "_", "/", "^", "^", "^", "^", "^", "^", "^", "\\", "_",
       "_", "_", "_", "_", "/", "^", "\\", "_", "_" >>

\* the upper eight bits of the 10-bit word: wr >> 2 & 0xFF (main.c:420)
WideByte == 135

ByteCalled == \E i \in DOMAIN hist : hist[i].call.op = "byte"

\* sspi_byte_read_write(&sspi, wr >> 2 & 0xFF) (main.c:420)
WideByteCall ==
    /\ Len(hist) >= 2 /\ hist[2].call.op = "delay"
    /\ ~ByteCalled
    /\ CallByte

\* sspi_bit_read_write(&sspi, ...) (main.c:421-422) after the word transfer
WideBitCall ==
    /\ Len(hist) >= 2 /\ hist[2].call.op = "delay"
    /\ ByteCalled
    /\ CallBit

\* the three calls of the test are operands of | and C leaves the order in
\* which operands are evaluated to the compiler: a bit call may come first
EarlyBitCall ==
    /\ Len(hist) >= 2 /\ hist[2].call.op = "delay"
    /\ ~ByteCalled /\ line.scripted
    /\ CallBit

InitWide ==
    /\ InitLocals
    /\ tracked = TRUE
    /\ bus \in [cpol_1 : BOOLEAN, cpha_1 : BOOLEAN, lsb : {FALSE},
                word_size : {0}]
    /\ mem = MemOf(<<>>, WideByte)
    /\ mem0 = mem
    /\ line \in {FreeLine, ScriptedLine(WideWave)}
    /\ left = WordCycles(bus) + MaxExtraBits
    /\ calls_left = 3 + MaxExtraBits

NextWide ==
    \/ FirstReset \/ SettleDelay
    \/ WideByteCall \/ WideBitCall \/ EarlyBitCall
    \/ WriteSck \/ WriteMosi \/ Delay \/ ReadMiso
    \/ ResetReturn \/ BitReturn
    \/ ByteLoop \/ ByteAccumulate \/ ByteReturn

SpecWide == InitWide /\ [][NextWide]_vars

---------------------------------------------------------------------------
(* Sessions as the tests run them: sspi_reset, one wait, then any bit,     *)
(* word and buffer transfers, with no further reset, against the data-in   *)
(* oscillogram of the 8-bit tests                                          *)

\* the reset and the wait after it have been made
Settled == Len(hist) >= 2 /\ hist[2].call.op = "delay"

SessionBit == Settled /\ CallBit
SessionByte == Settled /\ CallByte
SessionReadWrite == Settled /\ (CallReadWrite \/ CallRead \/ CallWrite)

InitSession ==
    /\ InitLocals
    /\ tracked = TRUE
    /\ bus \in Buses(1..2)
    /\ mem = MemOf(<<135, 90>>, 0)
    /\ mem0 = mem
    /\ line = ScriptedLine(ModeWave)
    /\ left = MaxCycles
    /\ calls_left = 2 + MaxCalls

NextSession ==
    \/ FirstReset \/ SettleDelay
    \/ SessionBit \/ SessionByte \/ SessionReadWrite
    \/ WriteSck \/ WriteMosi \/ Delay \/ ReadMiso
    \/ ResetReturn \/ BitReturn
    \/ ByteLoop \/ ByteAccumulate \/ ByteReturn
    \/ RwLoop \/ RwStore \/ RwReturn

SpecSession == InitSession /\ [][NextSession]_vars

---------------------------------------------------------------------------
(* Reset level: sspi_reset called up to MaxResets times, before, between   *)
(* and after up to MaxPriorCycles single-bit transfers that leave the pins *)
(* at any level                                                            *)

MaxResets == 3
MaxPriorCycles == 1

InitReset ==
    /\ InitLocals
    /\ tracked = TRUE
    /\ bus \in Buses({1})
    /\ mem = MemOf(<<135, 90>>, 0)
    /\ mem0 = mem
    /\ line = FreeLine
    /\ left = MaxPriorCycles
    /\ calls_left = MaxResets + MaxPriorCycles

NextReset ==
    \/ CallReset \/ CallBit
    \/ WriteSck \/ WriteMosi \/ Delay \/ ReadMiso
    \/ ResetReturn \/ BitReturn

SpecReset == InitReset /\ [][NextReset]_vars

---------------------------------------------------------------------------
(* Buffer level: sspi_read_write, sspi_read and sspi_write on any bus      *)
(* whose transfers of up to MaxSize words fit into MaxRwCycles bit cycles  *)

MaxRwCycles == 8
MaxRwWordSize == 3
RwWordSizes == (0 - 1)..MaxRwWordSize

InitRw ==
    /\ InitLocals
    /\ tracked = FALSE
    /\ bus \in Buses(RwWordSizes)
    /\ \E w \in WriteBuffers : mem = MemOf(w, 0)
    /\ mem0 = mem
    /\ line = FreeLine
    /\ left = MaxRwCycles
    /\ calls_left = 1

NextRw ==
    \/ CallReadWrite \/ CallRead \/ CallWrite
    \/ WriteSck \/ WriteMosi \/ Delay \/ ReadMiso
    \/ BitReturn
    \/ ByteLoop \/ ByteAccumulate \/ ByteReturn
    \/ RwLoop \/ RwStore \/ RwReturn

SpecRw == InitRw /\ [][NextRw]_vars

---------------------------------------------------------------------------
(* Buffer transfers run to their end: short words on a free data-in line,  *)
(* every callback returns and the code goes on to its next statement       *)

MaxRunCycles == 4
MaxRunWordSize == 2

InitRun ==
    /\ InitLocals
    /\ tracked = FALSE
    /\ bus \in Buses(0..MaxRunWordSize)
    /\ \E w \in WriteBuffers : mem = MemOf(w, 0)
    /\ mem0 = mem
    /\ line = FreeLine
    /\ left = MaxRunCycles
    /\ calls_left = 1

\* what happens inside a call: the callbacks return, the statements run
RunSteps ==
    \/ WriteSck \/ WriteMosi \/ Delay \/ ReadMiso
    \/ BitReturn
    \/ ByteLoop \/ ByteAccumulate \/ ByteReturn
    \/ RwLoop \/ RwStore \/ RwReturn

NextRun == CallReadWrite \/ CallRead \/ CallWrite \/ RunSteps

SpecRun == InitRun /\ [][NextRun]_vars /\ WF_vars(RunSteps)

---------------------------------------------------------------------------
(* Reading the log                                                         *)

\* the callbacks invoked since the log had length n
Seg(n) == SubSeq(log, n + 1, Len(log))

IsSck(e) == e.cb = "write_sck"
IsMosi(e) == e.cb = "write_mosi"
IsMiso(e) == e.cb = "read_miso"
IsDelay(e) == e.cb = "delay"

IsPrefix(s, t) == Len(s) <= Len(t) /\ SubSeq(t, 1, Len(s)) = s

\* a call of sspi_bit_read_write is running / has just returned to its caller
InBit == Top = "bit"
BitReturned == (pc = <<>> /\ call.op = "bit") \/ Top = "byte_38"

\* the levels of a bit cycle as the clock-polarity comment states them
OppositeOfIdle == IF bus.cpol_1 THEN 0 ELSE 1
IdleLevel == IF bus.cpol_1 THEN 1 ELSE 0

---------------------------------------------------------------------------
(* C1: with cpha = 0 one bit call invokes write_mosi(write_bit), delay,    *)
(* write_sck(lead), read_miso, delay, write_sck(trail), in this order and  *)
(* nothing else, and returns what read_miso returned.                      *)

SampleOnLeading(v) ==
    << Ev("write_mosi", write_bit), Ev("delay", 0),
       Ev("write_sck", OppositeOfIdle), Ev("read_miso", v),
       Ev("delay", 0), Ev("write_sck", IdleLevel) >>

C1_Cpha0Order ==
    ~bus.cpha_1 =>
        /\ InBit =>
              \E v \in PinLevels : IsPrefix(Seg(bit_base), SampleOnLeading(v))
        /\ BitReturned => Seg(bit_base) = SampleOnLeading(bit_ret)

C1_Witness ==
    /\ ~bus.cpha_1 /\ Top = "byte_38" /\ bit_ret = SSPI_PIN_HIGH
    /\ write_bit # 0 /\ bit_base > 0

(* C2: with cpha = 1 one bit call invokes delay, write_sck(lead),          *)
(* write_mosi(write_bit), delay, write_sck(trail), read_miso, in this      *)
(* order and nothing else, and returns that last sample.                   *)

SampleOnTrailing(v) ==
    << Ev("delay", 0), Ev("write_sck", OppositeOfIdle),
       Ev("write_mosi", write_bit), Ev("delay", 0),
       Ev("write_sck", IdleLevel), Ev("read_miso", v) >>

C2_Cpha1Order ==
    bus.cpha_1 =>
        /\ InBit =>
              \E v \in PinLevels : IsPrefix(Seg(bit_base), SampleOnTrailing(v))
        /\ BitReturned => Seg(bit_base) = SampleOnTrailing(bit_ret)

C2_Witness ==
    /\ bus.cpha_1 /\ Top = "byte_38" /\ bit_ret = SSPI_PIN_HIGH
    /\ write_bit # 0 /\ bit_base > 0

(* C3: in every bit cycle, for both phases, the first write_sck passes the *)
(* level opposite to the idle level and the second the idle level: HIGH    *)
(* then LOW for cpol = 0, LOW then HIGH for cpol = 1.                      *)

SckLevels(s) == [i \in DOMAIN SelectSeq(s, IsSck) |-> SelectSeq(s, IsSck)[i].val]

C3_LeadThenTrail ==
    /\ InBit => IsPrefix(SckLevels(Seg(bit_base)),
                         IF bus.cpol_1 THEN <<0, 1>> ELSE <<1, 0>>)
    /\ BitReturned => SckLevels(Seg(bit_base)) =
                         IF bus.cpol_1 THEN <<0, 1>> ELSE <<1, 0>>

C3_Witness ==
    /\ BitReturned /\ bus.cpol_1 /\ bus.cpha_1
    /\ SckLevels(Seg(bit_base)) = <<0, 1>>

---------------------------------------------------------------------------
(* Word transfers                                                          *)

\* a call of sspi_byte_read_write has just returned to its caller
ByteReturned == (pc = <<>> /\ call.op = "byte") \/ Top = "rw_66"

Vals(s) == [i \in DOMAIN s |-> s[i].val]
MosiLevels(s) == Vals(SelectSeq(s, IsMosi))
MisoLevels(s) == Vals(SelectSeq(s, IsMiso))

\* the callbacks of the word transfer that has just returned
WordSeg == Seg(byte_base)

\* the word transfer as sspi_byte_read_write(b, wbyte) runs it when
\* read_miso returns what it returned in the transfer just made
SameRun(b, wbyte) ==
    ByteRun(b, wbyte, MisoLevels(WordSeg)) = [log |-> WordSeg, ret |-> byte_ret]

\* the stepwise run and the run as a whole are the same run
RunIsByteRun == ByteReturned => SameRun(bus, byte_arg)

(* C4: MSB first, effective word size W in 1..8: a word transfer clocks    *)
(* exactly W bit cycles, the k-th transmitted bit is bit W-1-k of the      *)
(* write byte and the k-th sample is bit W-1-k of the returned byte.       *)

C4_MsbFirst ==
    (ByteReturned /\ ~bus.lsb /\ EffWordSize(bus) \in 1..8) =>
        LET W == EffWordSize(bus)
        IN  /\ Len(WordSeg) = 6 * W
            /\ Len(MosiLevels(WordSeg)) = W
            /\ Len(MisoLevels(WordSeg)) = W
            /\ \A k \in 0..(W - 1) :
                  /\ (MosiLevels(WordSeg)[k + 1] # 0)
                        <=> (BitOf(byte_arg, W - 1 - k) = 1)
                  /\ BitOf(byte_ret, W - 1 - k) = MisoLevels(WordSeg)[k + 1]

C4_Witness ==
    /\ ByteReturned /\ ~bus.lsb /\ bus.word_size = 5
    /\ byte_arg = 135 /\ byte_ret = 24

(* C5: LSB first, effective word size W in 1..8: a word transfer clocks    *)
(* exactly W bit cycles, the k-th transmitted bit is bit k of the write    *)
(* byte and the k-th sample is bit k of the returned byte.                 *)

C5_LsbFirst ==
    (ByteReturned /\ bus.lsb /\ EffWordSize(bus) \in 1..8) =>
        LET W == EffWordSize(bus)
        IN  /\ Len(WordSeg) = 6 * W
            /\ Len(MosiLevels(WordSeg)) = W
            /\ Len(MisoLevels(WordSeg)) = W
            /\ \A k \in 0..(W - 1) :
                  /\ (MosiLevels(WordSeg)[k + 1] # 0)
                        <=> (BitOf(byte_arg, k) = 1)
                  /\ BitOf(byte_ret, k) = MisoLevels(WordSeg)[k + 1]

C5_Witness ==
    /\ ByteReturned /\ bus.lsb /\ bus.word_size = 5
    /\ byte_arg = 26 /\ byte_ret = 5
    /\ MisoLevels(WordSeg) = <<1, 0, 1, 0, 0>>

(* C6: word_size w in 1..7, either bit order: write bytes that agree on    *)
(* their low w bits give the same callback sequence and the same returned  *)
(* byte, and bits w..7 of the returned byte are zero whatever was sampled. *)

C6_Truncation ==
    (ByteReturned /\ bus.word_size \in 1..7) =>
        LET w == bus.word_size
        IN  /\ \A other \in Byte :
                  (other % Pow2(w) = byte_arg % Pow2(w)) => SameRun(bus, other)
            /\ byte_ret < Pow2(w)

C6_Witness ==
    /\ ByteReturned /\ bus.word_size = 5 /\ ~bus.lsb
    /\ byte_arg = 135 /\ SameRun(bus, 7)
    /\ MisoLevels(WordSeg) = <<1, 1, 1, 1, 1>> /\ byte_ret = 31

(* C7: every level handed to write_mosi and to write_sck is LOW (0) or     *)
(* HIGH (1).                                                               *)

C7_LevelsAreEnumValues ==
    \A i \in DOMAIN log :
        (IsMosi(log[i]) \/ IsSck(log[i])) => log[i].val \in PinLevels

\* what the code hands over: LOW or HIGH to the clock, 0 or the one-bit
\* transmit mask (write_byte & mask_tx) to data-out
C7_MosiIsZeroOrMask ==
    \A i \in DOMAIN log :
        /\ IsSck(log[i]) => log[i].val \in PinLevels
        /\ IsMosi(log[i]) => log[i].val \in {0} \cup {Pow2(k) : k \in 0..7}

(* C8: word_size 0, 8 or more than 8 gives, for every write byte and every *)
(* sampled sequence, the callbacks and the returned byte of word_size 8,   *)
(* that is 8 bit cycles.                                                   *)

C8_DefaultWordSize ==
    (ByteReturned /\ (bus.word_size = 0 \/ bus.word_size >= 8)) =>
        /\ Len(MisoLevels(WordSeg)) = 8
        /\ Len(WordSeg) = 6 * 8
        /\ SameRun([bus EXCEPT !.word_size = 8], byte_arg)

C8_Witness ==
    /\ ByteReturned /\ bus.word_size = 0
    /\ byte_arg = 135 /\ byte_ret = 120

C8_WitnessAbove ==
    /\ ByteReturned /\ bus.word_size = MaxWordSize /\ bus.word_size > 8
    /\ byte_arg = 90 /\ byte_ret = 165

(* C9: a negative word_size selects the default of 8 bits: the word        *)
(* transfer clocks 8 bit cycles and returns what word_size 8 returns.      *)

C9_NegativeWordSize ==
    (ByteReturned /\ bus.word_size < 0) =>
        /\ Len(MisoLevels(WordSeg)) = 8
        /\ SameRun([bus EXCEPT !.word_size = 8], byte_arg)

\* what the code does with a negative word_size: no callback at all, and
\* 0 is returned
C9_NegativeClocksNothing ==
    (ByteReturned /\ bus.word_size < 0) => (WordSeg = <<>> /\ byte_ret = 0)

---------------------------------------------------------------------------
(* Buffer transfers                                                        *)

\* a call of sspi_read_write, sspi_read or sspi_write has returned
RwReturned == pc = <<>> /\ call.op \in {"rw", "read", "write"}

\* the callbacks of the top-level call that is running or has returned
CallSeg == Seg(call.base)

Count(s, Test(_)) == Len(SelectSeq(s, Test))

\* six callbacks that make one bit cycle
IsBitCycle(s) ==
    /\ Len(s) = 6
    /\ Count(s, IsSck) = 2 /\ Count(s, IsDelay) = 2
    /\ Count(s, IsMosi) = 1 /\ Count(s, IsMiso) = 1

(* C10: sspi_read_write with both buffers and a non-negative word_size of  *)
(* effective size W performs exactly n*W bit cycles and no other callback, *)
(* the W cycles of byte i before those of byte i+1; byte i transmitted is  *)
(* wr[i] and rd[i] ends as the word assembled from cycles i*W..i*W+W-1.    *)

C10_BufferTransfer ==
    (RwReturned /\ call.op = "rw" /\ bus.word_size >= 0) =>
        LET W == EffWordSize(bus)
            n == call.n
            Cycle(j) == SubSeq(CallSeg, 6 * j + 1, 6 * j + 6)
            Word(i) == SubSeq(CallSeg, 6 * W * i + 1, 6 * W * (i + 1))
        IN  /\ Len(CallSeg) = 6 * n * W
            /\ \A j \in 0..(n * W - 1) : IsBitCycle(Cycle(j))
            /\ \A i \in 0..(n - 1) :
                  ByteRun(bus, mem0[call.wr + i], MisoLevels(Word(i)))
                     = [log |-> Word(i), ret |-> mem[call.rd + i]]

C10_Witness ==
    /\ RwReturned /\ call.op = "rw" /\ call.n = 2 /\ call.rd = RdBuf
    /\ bus.word_size = 3 /\ ~bus.lsb
    /\ mem0[WrBuf] = 135 /\ mem0[WrBuf + 1] = 90
    /\ mem[RdBuf] = 5 /\ mem[RdBuf + 1] = 2
    /\ Len(CallSeg) = 36

\* the stepwise buffer transfer and the transfer as a whole are the same
RwIsRwRun ==
    RwReturned =>
        RwRun(bus, mem0, call.rd, call.wr, call.n, MisoLevels(CallSeg))
            = [log |-> CallSeg, mem |-> mem]

(* C11: sspi_write(bus, wr, n) invokes the callbacks, with the levels,     *)
(* that sspi_read_write(bus, rd, wr, n) invokes for the same write content *)
(* and the same samples, and stores to no memory location.                 *)

C11_WriteOnly ==
    (RwReturned /\ call.op = "write") =>
        /\ \A rd \in {RdBuf, WrBuf} :
              RwRun(bus, mem0, rd, call.wr, call.n, MisoLevels(CallSeg)).log
                 = CallSeg
        /\ mem = mem0

C11_Witness ==
    /\ RwReturned /\ call.op = "write" /\ call.n = 2 /\ call.wr = WrBuf
    /\ bus.word_size = 3 /\ bus.cpha_1
    /\ mem0[WrBuf] = 135 /\ mem0[WrBuf + 1] = 90
    /\ MisoLevels(CallSeg) = <<1, 0, 1, 0, 1, 0>>
    /\ MosiLevels(CallSeg) = <<4, 4, 4, 0, 4, 0>>

(* C12: sspi_read(bus, rd, n) with a non-negative word_size of effective   *)
(* size W passes LOW on every write_mosi call (every transmitted word is   *)
(* 0x00), performs n*W bit cycles and nothing else, and leaves in rd[i]    *)
(* the word received in cycles i*W..i*W+W-1.                               *)

C12_ReadOnly ==
    (RwReturned /\ call.op = "read" /\ bus.word_size >= 0) =>
        LET W == EffWordSize(bus)
            n == call.n
            Cycle(j) == SubSeq(CallSeg, 6 * j + 1, 6 * j + 6)
            Word(i) == SubSeq(CallSeg, 6 * W * i + 1, 6 * W * (i + 1))
        IN  /\ \A k \in DOMAIN MosiLevels(CallSeg) :
                  MosiLevels(CallSeg)[k] = SSPI_PIN_LOW
            /\ Len(CallSeg) = 6 * n * W
            /\ Len(MosiLevels(CallSeg)) = n * W
            /\ \A j \in 0..(n * W - 1) : IsBitCycle(Cycle(j))
            /\ \A i \in 0..(n - 1) :
                  ByteRun(bus, 0, MisoLevels(Word(i)))
                     = [log |-> Word(i), ret |-> mem[call.rd + i]]
            /\ \A a \in Addrs :
                  a \notin call.rd..(call.rd + n - 1) => mem[a] = mem0[a]

C12_Witness ==
    /\ RwReturned /\ call.op = "read" /\ call.n = 2 /\ call.rd = RdBuf
    /\ bus.word_size = 3 /\ ~bus.lsb
    /\ mem0[WrBuf] = 135
    /\ MisoLevels(CallSeg) = <<1, 0, 1, 0, 1, 0>>
    /\ mem[RdBuf] = 5 /\ mem[RdBuf + 1] = 2

---------------------------------------------------------------------------
(* Sessions: the calls made so far and what each of them did               *)

\* the i-th top-level call has returned
CallDone(i) == i < Len(hist) \/ pc = <<>>

\* the log position at which the i-th top-level call ends (so far)
CallEnd(i) == IF i < Len(hist) THEN hist[i + 1].call.base ELSE Len(log)

\* the callbacks of the i-th top-level call
HistSeg(i) == SubSeq(log, hist[i].call.base + 1, CallEnd(i))

\* the level last written to the clock / to data-out within s
LastSck(s) == LET w == SelectSeq(s, IsSck) IN w[Len(w)].val
LastMosi(s) == LET w == SelectSeq(s, IsMosi) IN w[Len(w)].val

(* C13: every sspi_reset invokes exactly write_sck(idle level) and then    *)
(* write_mosi(LOW), never read_miso or delay; whatever was written before, *)
(* after one reset or several in a row the last written clock level is the *)
(* idle level and the last written data-out level is LOW.                  *)

C13_Reset ==
    \A i \in DOMAIN hist :
        hist[i].call.op = "reset" =>
            LET both == << Ev("write_sck", IdleLevel),
                           Ev("write_mosi", SSPI_PIN_LOW) >>
                upto == SubSeq(log, 1, CallEnd(i))
            IN  /\ IsPrefix(HistSeg(i), both)
                /\ CallDone(i) =>
                      /\ HistSeg(i) = both
                      /\ LastSck(upto) = IdleLevel
                      /\ LastMosi(upto) = SSPI_PIN_LOW

C13_Witness ==
    /\ pc = <<>> /\ Len(hist) = 3 /\ bus.cpol_1 /\ ~bus.cpha_1
    /\ hist[1].call.op = "bit" /\ hist[1].call.arg = 1
    /\ hist[2].call.op = "reset" /\ hist[3].call.op = "reset"
    /\ Vals(log) = <<1, 0, 0, 1, 0, 1, 1, 0, 1, 0>>

\* the levels the claim lists for the data-in line, one per wait
ModeLevels ==
    << 0, 0, 0, 1, 1, 1, 1, 1, 1, 1, 1, 0, 0, 0, 0, 0, 0,
       1, 1, 0, 0, 1, 1, 0, 0, 0, 0, 1, 1, 0, 0, 1, 1 >>

\* the waits made so far
Waits == Count(log, IsDelay)

(* C14: after sspi_reset, one wait and an MSB-first 8-bit sspi_read_write  *)
(* of {0x87, 0x5A}, with the data-in line changing only at the waits and   *)
(* taking at the i-th wait the i-th level of the listed sequence (HIGH     *)
(* afterwards), the read buffer holds {0x78, 0xA5} for each of the four    *)
(* combinations of cpol and cpha.                                          *)

C14_FourModes ==
    /\ Waits > 0 =>
          line.real = IF Waits <= Len(ModeLevels)
                      THEN ModeLevels[Waits] ELSE SSPI_PIN_HIGH
    /\ (Len(hist) >= 3 /\ CallDone(3)) =>
          /\ hist[1].call.op = "reset" /\ hist[2].call.op = "delay"
          /\ hist[3].call.op = "rw" /\ hist[3].call.n = 2
          /\ HistSeg(2) = <<Ev("delay", 0)>>
          /\ mem0[WrBuf] = 135 /\ mem0[WrBuf + 1] = 90
          /\ mem[RdBuf] = 120 /\ mem[RdBuf + 1] = 165

C14_Witness ==
    /\ Len(hist) = 4 /\ pc = <<>> /\ bus.cpol_1 /\ bus.cpha_1
    /\ Waits = Len(ModeLevels) + 1
    /\ mem[RdBuf] = 120 /\ mem[RdBuf + 1] = 165
    /\ MosiLevels(HistSeg(3))
          = <<128, 0, 0, 0, 0, 128, 128, 128, 0, 128, 0, 128, 128, 0, 128, 0>>

---------------------------------------------------------------------------
(* Relations between runs                                                  *)

\* v with its low W bits reversed
RECURSIVE Rev(_, _)
Rev(W, v) ==
    IF W = 0 THEN 0 ELSE (v % 2) * Pow2(W - 1) + Rev(W - 1, v \div 2)

\* the bits a sequence of levels puts on a line: low or not low
Bits(s) == [i \in DOMAIN s |-> IF s[i] # SSPI_PIN_LOW THEN 1 ELSE 0]

(* C15: for W in 1..8 an LSB-first word transfer of v puts on data-out the *)
(* bit sequence an MSB-first transfer of rev_W(v) puts there, and on the   *)
(* same samples returns rev_W of what the MSB-first transfer returns; for  *)
(* a palindrome v both bit orders put the same bits on the wire.           *)

C15_BitOrderSymmetry ==
    (ByteReturned /\ bus.lsb /\ EffWordSize(bus) \in 1..8) =>
        LET W == EffWordSize(bus)
            v == byte_arg % Pow2(W)
            msb == [bus EXCEPT !.lsb = FALSE]
            M == ByteRun(msb, Rev(W, v), MisoLevels(WordSeg))
        IN  /\ Bits(MosiLevels(M.log)) = Bits(MosiLevels(WordSeg))
            /\ MisoLevels(M.log) = MisoLevels(WordSeg)
            /\ byte_ret = Rev(W, M.ret)
            /\ Rev(W, v) = v =>
                  Bits(MosiLevels(ByteRun(msb, v, MisoLevels(WordSeg)).log))
                     = Bits(MosiLevels(WordSeg))

C15_Witness ==
    /\ ByteReturned /\ bus.lsb /\ bus.word_size = 5
    /\ byte_arg = 26 /\ Rev(5, 26) = 11
    /\ MisoLevels(WordSeg) = <<1, 0, 1, 1, 0>>
    /\ byte_ret = 13 /\ Rev(5, 13) = 22
    /\ Bits(MosiLevels(WordSeg)) = <<0, 1, 0, 1, 1>>
    /\ ByteRun([bus EXCEPT !.lsb = FALSE], 11, MisoLevels(WordSeg)).ret = 22

C15_WitnessPalindrome ==
    /\ ByteReturned /\ bus.lsb /\ bus.word_size = 0
    /\ byte_arg = 90 /\ Rev(8, 90) = 90
    /\ Bits(MosiLevels(WordSeg)) = <<0, 1, 0, 1, 1, 0, 1, 0>>

\* bit cycles with the written levels ws and the sampled levels rs, one
\* after the other
RECURSIVE Cycles(_, _, _)
Cycles(b, ws, rs) ==
    IF ws = <<>> \/ rs = <<>>
    THEN <<>>
    ELSE BitLog(b, Head(ws), Head(rs)) \o Cycles(b, Tail(ws), Tail(rs))

\* the value of a bit sequence whose first bit is the most significant
RECURSIVE MsbValue(_)
MsbValue(s) ==
    IF s = <<>> THEN 0 ELSE Head(s) * Pow2(Len(s) - 1) + MsbValue(Tail(s))

\* the calls so far are reset, wait, one word transfer and then bit
\* transfers only, and the last of them has returned
ByteThenBits ==
    /\ Len(hist) >= 3 /\ pc = <<>>
    /\ hist[3].call.op = "byte"
    /\ \A i \in 4..Len(hist) : hist[i].call.op = "bit"

\* (byte_result << k) | the k bit results, as main.c:420-422 composes them
RECURSIVE ComposedUpTo(_)
ComposedUpTo(i) ==
    IF i = 3 THEN hist[3].ret
    ELSE ComposedUpTo(i - 1) * 2 + (IF hist[i].ret # 0 THEN 1 ELSE 0)

\* the callbacks from the word transfer on
WideSeg == Seg(hist[3].call.base)

(* C16: one 8-bit MSB-first word transfer followed by k bit transfers      *)
(* invokes the callbacks of 8+k consecutive bit cycles and nothing else,   *)
(* and (byte_result << k) | the bit results is the MSB-first value of the  *)
(* 8+k samples; in mode 0 against the oscillogram of the 10-bit test,      *)
(* writing 0x021D this way reads 0x01E2.                                   *)

C16_WiderWords ==
    ByteThenBits =>
        LET k == Len(hist) - 3
        IN  /\ Len(MosiLevels(WideSeg)) = 8 + k
            /\ Len(MisoLevels(WideSeg)) = 8 + k
            /\ WideSeg = Cycles(bus, MosiLevels(WideSeg), MisoLevels(WideSeg))
            /\ ComposedUpTo(Len(hist)) = MsbValue(MisoLevels(WideSeg))
            /\ ( /\ line.scripted /\ ~bus.cpol_1 /\ ~bus.cpha_1 /\ k = 2
                 /\ hist[3].call.arg = 135
                 /\ hist[4].call.arg = 0 /\ hist[5].call.arg = 1 )
               => ComposedUpTo(Len(hist)) = 482

C16_Witness ==
    /\ ByteThenBits /\ Len(hist) = 5
    /\ line.scripted /\ ~bus.cpol_1 /\ ~bus.cpha_1
    /\ hist[3].call.arg = 135 /\ hist[4].call.arg = 0 /\ hist[5].call.arg = 1
    /\ hist[3].ret = 120 /\ hist[4].ret = 1 /\ hist[5].ret = 0
    /\ ComposedUpTo(5) = 482

C16_WitnessFree ==
    /\ ByteThenBits /\ Len(hist) = 5 /\ ~line.scripted /\ bus.cpha_1
    /\ MisoLevels(WideSeg) = <<1, 0, 1, 0, 0, 1, 0, 1, 1, 1>>
    /\ ComposedUpTo(5) = 663

\* the order of the three calls matters: with a bit call made before the
\* word transfer the test composes another value
C16_WitnessOtherOrder ==
    /\ pc = <<>> /\ Len(hist) = 5 /\ line.scripted
    /\ ~bus.cpol_1 /\ ~bus.cpha_1
    /\ hist[3].call.op = "bit" /\ hist[3].call.arg = 0
    /\ hist[4].call.op = "byte" /\ hist[5].call.op = "bit"
    /\ hist[5].call.arg = 1
    /\ hist[4].ret * 4 + hist[3].ret * 2 + hist[5].ret # 482

---------------------------------------------------------------------------
(* What a buffer transfer touches                                          *)

\* sspi_read_write is running or has returned, called with two buffers
\* that do not overlap
DistinctBuffers ==
    /\ call.op = "rw"
    /\ call.rd # NULL /\ call.wr # NULL
    /\ (call.rd + call.n <= call.wr \/ call.wr + call.n <= call.rd)

\* the elements of the array at p that a transfer of n words may touch
Elements(p, n) == p..(p + n - 1)

(* C17: sspi_read_write with distinct buffers never changes a cell outside *)
(* elements 0..n-1 of the read buffer (so no element of the write buffer), *)
(* fetches only elements 0..n-1 of the write buffer and stores only to     *)
(* elements 0..n-1 of the read buffer, and no step changes a field of the  *)
(* bus configuration.                                                      *)

C17_Frame ==
    /\ [](DistinctBuffers =>
            /\ \A a \in Addrs :
                  a \notin Elements(call.rd, call.n) => mem[a] = mem0[a]
            /\ \A a \in Elements(call.wr, MaxSize + 1) : mem[a] = mem0[a]
            /\ (Top = "rw_63" /\ size # 0) =>
                  write_buff \in Elements(call.wr, call.n)
            /\ Top = "rw_66" => read_buff \in Elements(call.rd, call.n)
            /\ pc = <<>> =>
                  /\ write_buff = call.wr + call.n
                  /\ read_buff = call.rd + call.n)
    /\ [][bus' = bus]_vars

C17_Witness ==
    /\ RwReturned /\ DistinctBuffers /\ call.n = 1 /\ call.rd = RdBuf
    /\ bus.word_size = 3
    /\ mem0[RdBuf] = 0 /\ mem[RdBuf] = 7
    /\ mem[RdBuf + 1] = 0 /\ mem[WrBuf + 1] = 90
    /\ write_buff = WrBuf + 1 /\ read_buff = RdBuf + 1

\* the bus with the other clock polarity
OtherCpol(b) == [b EXCEPT !.cpol_1 = ~@]

\* the other level
Inverted(v) == IF v = SSPI_PIN_LOW THEN SSPI_PIN_HIGH ELSE SSPI_PIN_LOW

\* s and t invoke the same callbacks in the same order, pass the same
\* data-out levels and take the same samples, and pass opposite clock levels
ClockMirrored(s, t) ==
    /\ Len(s) = Len(t)
    /\ \A i \in DOMAIN s :
          /\ s[i].cb = t[i].cb
          /\ s[i].val = IF IsSck(t[i]) THEN Inverted(t[i].val) ELSE t[i].val

(* C18: for the same cpha, bit order, word size, write data and samples,   *)
(* the transfer on the bus with the other cpol invokes the same callbacks  *)
(* in the same order with every write_sck level inverted and every         *)
(* write_mosi level equal, and returns and stores the same bytes.          *)

C18_CpolIndependence ==
    /\ ByteReturned =>
          LET O == ByteRun(OtherCpol(bus), byte_arg, MisoLevels(WordSeg))
          IN  ClockMirrored(O.log, WordSeg) /\ O.ret = byte_ret
    /\ RwReturned =>
          LET O == RwRun(OtherCpol(bus), mem0, call.rd, call.wr, call.n,
                         MisoLevels(CallSeg))
          IN  ClockMirrored(O.log, CallSeg) /\ O.mem = mem

C18_Witness ==
    /\ RwReturned /\ call.op = "rw" /\ call.n = 2 /\ call.rd = RdBuf
    /\ bus.cpol_1 /\ bus.word_size = 3 /\ bus.lsb
    /\ SckLevels(CallSeg) = <<0, 1, 0, 1, 0, 1, 0, 1, 0, 1, 0, 1>>
    /\ SckLevels(RwRun(OtherCpol(bus), mem0, call.rd, call.wr, call.n,
                       MisoLevels(CallSeg)).log)
          = <<1, 0, 1, 0, 1, 0, 1, 0, 1, 0, 1, 0>>
    /\ mem[RdBuf] = 5 /\ mem[RdBuf + 1] = 6

---------------------------------------------------------------------------
(* Pin writes and waits over a session                                     *)

\* the positions of the log that hold a delay invocation
DelayAt == {i \in DOMAIN log : IsDelay(log[i])}

\* i and j are the positions of two consecutive delay invocations out of D
ConsecutiveDelays(D, i, j) ==
    /\ i \in D /\ j \in D /\ i < j
    /\ \A m \in D : ~(i < m /\ m < j)

(* C19: in a run of sspi_reset, one wait and then any bit, word and buffer *)
(* transfers, between two consecutive delay invocations write_sck is       *)
(* called at most once and write_mosi is called at most once.              *)

C19_OneWritePerHalfPeriod ==
    LET D == DelayAt
    IN  \A i \in D : \A j \in D :
            ConsecutiveDelays(D, i, j) =>
                /\ Count(SubSeq(log, i + 1, j - 1), IsSck) <= 1
                /\ Count(SubSeq(log, i + 1, j - 1), IsMosi) <= 1

C19_Witness ==
    /\ pc = <<>> /\ Len(hist) = 4 /\ ~bus.cpha_1 /\ bus.word_size = 2
    /\ hist[3].call.op = "bit" /\ hist[4].call.op = "rw" /\ hist[4].call.n = 1
    /\ Count(log, IsDelay) = 7
    /\ ConsecutiveDelays(DelayAt, 8, 11)
    /\ Count(SubSeq(log, 9, 10), IsSck) = 1
    /\ Count(SubSeq(log, 9, 10), IsMosi) = 1

(* C20: from sspi_reset on, over any bit, word and buffer transfers on an  *)
(* unchanged bus, every write_sck passes the level the previous write_sck  *)
(* did not pass, and whenever an operation has returned the last level     *)
(* written to the clock is the idle level that cpol selects.               *)

C20_ClockAlternates ==
    /\ LET w == SelectSeq(log, IsSck)
       IN  /\ \A k \in 1..(Len(w) - 1) : w[k].val # w[k + 1].val
           /\ \A k \in DOMAIN w : w[k].val \in PinLevels
    /\ ((pc = <<>> /\ hist # <<>>) \/ BitReturned \/ ByteReturned) =>
          LastSck(log) = IdleLevel

C20_Witness ==
    /\ pc = <<>> /\ Len(hist) = 4 /\ bus.cpol_1 /\ bus.cpha_1
    /\ hist[3].call.op = "byte" /\ hist[4].call.op = "bit"
    /\ bus.word_size = 2
    /\ SckLevels(log) = <<1, 0, 1, 0, 1, 0, 1>>

---------------------------------------------------------------------------
(* Transfers in place                                                      *)

\* sspi_read_write is running or has returned, called with one array as
\* read buffer and as write buffer
InPlace == call.op = "rw" /\ call.rd = call.wr /\ call.wr # NULL

(* C21: when read_buff and write_buff point to the same array,             *)
(* sspi_read_write transmits the original content of every element         *)
(* (element i is fetched before the received word i is stored over it) and *)
(* the array holds the received words after the call.                      *)

C21_InPlace ==
    InPlace =>
        /\ \A a \in Addrs :
              (pc # <<>> /\ a >= write_buff) => mem[a] = mem0[a]
        /\ Top = "rw_66" =>
              /\ tx_byte = mem0[write_buff - 1]
              /\ byte_arg = mem0[write_buff - 1]
              /\ read_buff = write_buff - 1
              /\ mem[read_buff] = mem0[read_buff]
        /\ (pc = <<>> /\ bus.word_size >= 0) =>
              LET W == EffWordSize(bus)
                  Word(i) == SubSeq(CallSeg, 6 * W * i + 1, 6 * W * (i + 1))
              IN  /\ Len(CallSeg) = 6 * W * call.n
                  /\ \A i \in 0..(call.n - 1) :
                        /\ ByteRun(bus, mem0[call.wr + i],
                                   MisoLevels(Word(i))).log = Word(i)
                        /\ mem[call.wr + i]
                              = ByteRun(bus, mem0[call.wr + i],
                                        MisoLevels(Word(i))).ret
                  /\ \A a \in Addrs :
                        a \notin Elements(call.wr, call.n) => mem[a] = mem0[a]

C21_Witness ==
    /\ RwReturned /\ InPlace /\ call.n = 2 /\ call.wr = WrBuf
    /\ bus.word_size = 3 /\ ~bus.lsb
    /\ mem0[WrBuf] = 135 /\ mem0[WrBuf + 1] = 90
    /\ MosiLevels(CallSeg) = <<4, 4, 4, 0, 4, 0>>
    /\ MisoLevels(CallSeg) = <<0, 0, 1, 1, 1, 0>>
    /\ mem[WrBuf] = 1 /\ mem[WrBuf + 1] = 6

---------------------------------------------------------------------------
(* Buffer transfers end                                                    *)

\* a call of sspi_read_write, sspi_read or sspi_write is running
RwRunning == pc # <<>> /\ call.op \in {"rw", "read", "write"}

\* how far a buffer pointer of the call has moved (a null pointer stays)
Advance(p, from) == IF from = NULL THEN 0 ELSE p - from

(* C22: provided every callback returns, sspi_read_write with length n     *)
(* always returns, after exactly n word transfers whatever the data, the   *)
(* mode and the buffers; with n = 0 it returns without invoking a callback *)
(* and without reading or writing either buffer.                           *)

C22_RunToCompletion ==
    /\ [](RwRunning =>
            /\ Advance(write_buff, call.wr) <= call.n
            /\ Advance(read_buff, call.rd) <= call.n)
    /\ [](RwReturned =>
            /\ call.wr # NULL => Advance(write_buff, call.wr) = call.n
            /\ call.rd # NULL => Advance(read_buff, call.rd) = call.n
            /\ bus.word_size >= 0 =>
                  /\ Len(CallSeg) = 6 * EffWordSize(bus) * call.n
                  /\ Len(MisoLevels(CallSeg)) = EffWordSize(bus) * call.n
            /\ call.n = 0 =>
                  /\ CallSeg = <<>>
                  /\ mem = mem0
                  /\ write_buff = call.wr /\ read_buff = call.rd)
    /\ (RwRunning ~> RwReturned)

C22_Witness ==
    /\ RwReturned /\ call.op = "rw" /\ call.n = 2 /\ call.rd = RdBuf
    /\ bus.word_size = 2 /\ bus.cpha_1 /\ bus.lsb
    /\ write_buff = WrBuf + 2 /\ read_buff = RdBuf + 2
    /\ Len(CallSeg) = 24 /\ mem[RdBuf] = 1 /\ mem[RdBuf + 1] = 2

C22_WitnessEmpty ==
    /\ RwReturned /\ call.op = "read" /\ call.n = 0 /\ bus.word_size = 0
    /\ log = <<>> /\ read_buff = RdBuf

==========================================================================
